---- MODULE Spec2Model ----
(***************************************************************************)
(* The bandwidth engine of Data Waster: the useDataWaster hook of          *)
(* src/src/client/App.tsx (start, stop, downloadWorker, uploadWorker, the  *)
(* sampler effect) together with the controls of App that drive it.        *)
(*                                                                         *)
(* JavaScript runs one callback at a time.  A worker is an async function: *)
(* it runs from one await to the next without interruption, so every       *)
(* action below is one such segment, taken when the awaited promise        *)
(* settles.  A promise that settles is continued in the microtask          *)
(* checkpoint of the same task, before any other task (click, timer,       *)
(* network event) runs.  AbortController.abort() rejects the pending       *)
(* fetch and read promises of its signal synchronously; the rejected       *)
(* workers (at = "catch") run their catch block in the microtask           *)
(* checkpoint that ends the aborting callback (Settle).                    *)
(*                                                                         *)
(* The handlers of the API endpoints (src/api/upload.ts, download.ts,      *)
(* proxy.ts) are modelled beside the engine, with variables of their own.  *)
(***************************************************************************)
EXTENDS Bags, FiniteSets, Integers, Sequences, TLC

----------------------------------------------------------------------------
(* Bounds of the exploration *)

\* threads takes values up to MaxThreads (the slider of App allows 1..16)
MaxThreads == 2
\* dataLimitMB takes values up to MaxLimitMB (the presets of App go to 5120)
MaxLimitMB == 1
\* number of AbortControllers created, i.e. of calls of start
MaxRuns == 2
\* number of worker invocations alive at once: start is followed only where
\* the workers it launches fit
MaxWorkers == 2
\* consecutive failures of one worker that are explored
MaxRetryCount == 4
\* chunks of one request body that are explored
MaxChunks == 3
\* Date.now() takes values 0..MaxNow (seconds)
MaxNow == 0

----------------------------------------------------------------------------
(* Program constants *)

MB == 1024 * 1024
\* uploadChunk = new Uint8Array(512 * 1024)
UploadChunkLength == 512 * 1024
\* const maxRetries = 3 (both workers)
maxRetries == 3
\* lengths of the chunks reader.read() delivers (chosen by the network)
ChunkLengths == {1024 * 1024}
\* chunks are counted while the byte counter is at most this value (a run
\* with the budget disabled never ends by itself)
MaxBytes == MaxLimitMB * MB

Modes == {"download", "upload", "both"}
NoReason == [digits |-> -1, hundredths |-> 0, unit |-> "none"]

Min(a, b) == IF a <= b THEN a ELSE b
Max(a, b) == IF a >= b THEN a ELSE b

VARIABLES
    \* React state of useDataWaster
    active, mode, threads, stats, stoppedReason, connectionStatus,
    dataLimitMB, enableLimit,
    \* refs of useDataWaster
    bytesRef, lastBytesRef, startTimeRef, activeRef, abortRef, limitRef,
    \* aborted[c]: signal.aborted of the c-th AbortController created
    aborted,
    \* the live invocations of downloadWorker / uploadWorker, a bag of records
    workers,
    \* TRUE while the interval of the sampler effect exists
    timer,
    \* history: calls of stopWithReason since the last start
    stopCalls,
    \* history: the sum of the speeds published since the last start
    speedSum,
    \* the API endpoints: the request being handled, the position and the
    \* locals of its handler, the response returned, and what the handler has
    \* read from the request body and fetched upstream
    request, handler, response, network

vars == <<active, mode, threads, stats, stoppedReason, connectionStatus,
          dataLimitMB, enableLimit, bytesRef, lastBytesRef, startTimeRef,
          activeRef, abortRef, limitRef, aborted, workers, timer, stopCalls,
          speedSum, request, handler, response, network>>

serverVars == <<request, handler, response, network>>

----------------------------------------------------------------------------
(* Helpers *)

RECURSIVE Pow(_, _)
Pow(b, e) == IF e = 0 THEN 1 ELSE b * Pow(b, e - 1)

\* Math.floor(Math.log(bytes) / Math.log(1024)), bytes >= 1
RECURSIVE Log1024(_)
Log1024(bytes) == IF bytes < 1024 THEN 0 ELSE 1 + Log1024(bytes \div 1024)

sizes == <<"B", "KB", "MB", "GB", "TB">>

\* formatBytes: "0 B", else (bytes / 1024 ** i).toFixed(2) and sizes[i];
\* the text is kept as its number of decimals, its value in hundredths
\* (rounded as toFixed rounds) and its unit
formatBytes(bytes) ==
    IF bytes = 0 THEN [digits |-> 0, hundredths |-> 0, unit |-> "B"]
    ELSE LET i == Log1024(bytes)
             p == Pow(1024, i)
         IN [digits |-> 2,
             hundredths |-> (bytes \div p) * 100 + ((bytes % p) * 200 + p) \div (2 * p),
             unit |-> sizes[i + 1]]

\* `Target reached: ${formatBytes(limitRef.current.limitBytes)}`
TargetReached(st) == formatBytes(st.limitRef.limitBytes)

\* mutant: the comparison with the limit written > for >=
LimitExceeded(st) == st.limitRef.enabled /\ st.bytesRef > st.limitRef.limitBytes

\* mutant: the limit compared without limitRef.current.enabled
LimitIgnoringSwitch(st) == st.bytesRef >= st.limitRef.limitBytes

\* limitRef.current.enabled && bytesRef.current >= limitRef.current.limitBytes
LimitReached(st) == st.limitRef.enabled /\ st.bytesRef >= st.limitRef.limitBytes

\* mutant: the backoff without its cap
BackoffUncapped(retryCount) == 500 * Pow(2, retryCount - 1)

\* Math.min(500 * 2 ** (retryCount - 1), 2000)
BackoffDelay(retryCount) == Min(500 * Pow(2, retryCount - 1), 2000)

\* { enabled: enableLimit, limitBytes: dataLimitMB * 1024 * 1024 }
LimitOf(enabled, limitMB) == [enabled |-> enabled, limitBytes |-> limitMB * 1024 * 1024]

\* a worker invocation: its kind, the controller of its signal, its retryCount,
\* the await it is suspended at and, while it sleeps, the delay of its timer
NewWorker(kind, signal) ==
    [kind |-> kind, signal |-> signal, retryCount |-> 0, at |-> "start", delay |-> 0]

WorkerSet == BagToSet(workers)
Without(ws, w) == ws (-) SetToBag({w})
With(ws, w) == ws (+) SetToBag({w})

\* the shared state the worker segments read and write
St == [bytesRef |-> bytesRef, activeRef |-> activeRef, abortRef |-> abortRef,
       aborted |-> aborted, limitRef |-> limitRef, stoppedReason |-> stoppedReason,
       active |-> active, connectionStatus |-> connectionStatus,
       workers |-> workers, stopCalls |-> stopCalls]

Install(st) ==
    /\ bytesRef' = st.bytesRef
    /\ activeRef' = st.activeRef
    /\ abortRef' = st.abortRef
    /\ aborted' = st.aborted
    /\ limitRef' = st.limitRef
    /\ stoppedReason' = st.stoppedReason
    /\ active' = st.active
    /\ connectionStatus' = st.connectionStatus
    /\ workers' = st.workers
    /\ stopCalls' = st.stopCalls

----------------------------------------------------------------------------
(* stopWithReason and the worker loops *)

\* mutant: the signal is not handed to fetch, abort() rejects nothing
RejectNone(w, c) == w

\* mutant: fetch called without the signal, abort() rejects the reads only
RejectReadsOnly(w, c) ==
    IF w.signal = c /\ w.at = "read" THEN [w EXCEPT !.at = "catch"] ELSE w

\* the fetch and read promises of signal c reject with an AbortError
RejectOne(w, c) ==
    IF w.signal = c /\ w.at \in {"fetch", "read"} THEN [w EXCEPT !.at = "catch"] ELSE w

\* abortRef.current?.abort()
Abort(st) ==
    IF st.abortRef = 0 \/ st.aborted[st.abortRef] THEN st
    ELSE [st EXCEPT !.aborted[st.abortRef] = TRUE,
                    !.workers = BagOfAll(LAMBDA w : RejectOne(w, st.abortRef), @)]

\* mutant: the reason names the bytes counted, not the limit
stopWithTotal(st, reason) ==
    Abort([st EXCEPT !.stoppedReason = formatBytes(st.bytesRef), !.active = FALSE,
                     !.stopCalls = @ + 1])

\* mutant: stopWithReason without abortRef.current?.abort()
stopWithoutAbort(st, reason) ==
    [st EXCEPT !.stoppedReason = reason, !.active = FALSE, !.stopCalls = @ + 1]

stopWithReason(st, reason) ==
    Abort([st EXCEPT !.stoppedReason = reason, !.active = FALSE,
                     !.stopCalls = @ + 1])

\* mutant: the loop condition without !signal.aborted
EnterIgnoringSignal(st, w) ==
    IF ~st.activeRef THEN st
    ELSE IF LimitReached(st) THEN stopWithReason(st, TargetReached(st))
    ELSE [st EXCEPT !.workers = With(@, [w EXCEPT !.at = "fetch", !.delay = 0])]

\* mutant: the loop without the limit check before fetch
EnterUnchecked(st, w) ==
    IF st.aborted[w.signal] \/ ~st.activeRef THEN st
    ELSE [st EXCEPT !.workers = With(@, [w EXCEPT !.at = "fetch", !.delay = 0])]

\* mutant: a worker that finds its signal aborted sleeps again
EnterSleepingOn(st, w) ==
    IF st.aborted[w.signal] THEN [st EXCEPT !.workers = With(@, w)]
    ELSE IF ~st.activeRef THEN st
    ELSE IF LimitReached(st) THEN stopWithReason(st, TargetReached(st))
    ELSE [st EXCEPT !.workers = With(@, [w EXCEPT !.at = "fetch", !.delay = 0])]

\* mutant: the loop condition reads the signal of the current controller
EnterOnCurrentSignal(st, w) ==
    IF st.aborted[st.abortRef] \/ ~st.activeRef THEN st
    ELSE IF LimitReached(st) THEN stopWithReason(st, TargetReached(st))
    ELSE [st EXCEPT !.workers = With(@, [w EXCEPT !.at = "fetch", !.delay = 0])]

\* the head of the while loop up to the fetch of worker w, which is not in
\* st.workers: the loop condition, the limit check, the call of fetch
Enter(st, w) ==
    IF st.aborted[w.signal] \/ ~st.activeRef THEN st
    ELSE IF LimitReached(st) THEN stopWithReason(st, TargetReached(st))
    ELSE [st EXCEPT !.workers = With(@, [w EXCEPT !.at = "fetch", !.delay = 0])]

\* mutant: the catch block without `if (signal.aborted) return`
CaughtCountingAborts(st, w) ==
    LET n == w.retryCount + 1
        s == IF n >= maxRetries THEN [st EXCEPT !.connectionStatus = "error"] ELSE st
    IN [s EXCEPT !.workers = With(@, [w EXCEPT !.retryCount = n, !.at = "sleep",
                                                !.delay = BackoffDelay(n)])]

\* mutant: a worker gives up at maxRetries failures in a row
CaughtGivingUp(st, w) ==
    IF st.aborted[w.signal] THEN st
    ELSE LET n == w.retryCount + 1
         IN IF n >= maxRetries THEN [st EXCEPT !.connectionStatus = "error"]
            ELSE [st EXCEPT !.workers = With(@, [w EXCEPT !.retryCount = n, !.at = "sleep",
                                                          !.delay = BackoffDelay(n)])]

\* mutant: the status is set past maxRetries only (> for >=)
CaughtLate(st, w) ==
    IF st.aborted[w.signal] THEN st
    ELSE LET n == w.retryCount + 1
             s == IF n > maxRetries THEN [st EXCEPT !.connectionStatus = "error"] ELSE st
         IN [s EXCEPT !.workers = With(@, [w EXCEPT !.retryCount = n, !.at = "sleep",
                                                     !.delay = BackoffDelay(n)])]

\* the catch block of worker w, which is not in st.workers
Caught(st, w) ==
    IF st.aborted[w.signal] THEN st
    ELSE LET n == w.retryCount + 1
             s == IF n >= maxRetries THEN [st EXCEPT !.connectionStatus = "error"] ELSE st
         IN [s EXCEPT !.workers = With(@, [w EXCEPT !.retryCount = n, !.at = "sleep",
                                                     !.delay = BackoffDelay(n)])]

\* the microtask checkpoint after a callback: every worker rejected by abort()
\* runs its catch block
RECURSIVE Settle(_)
Settle(st) ==
    LET rejected == {w \in BagToSet(st.workers) : w.at = "catch"}
    IN IF rejected = {} THEN st
       ELSE LET w == CHOOSE x \in rejected : TRUE
            IN Settle(Caught([st EXCEPT !.workers = Without(@, w)], w))

\* setConnectionStatus("connected"); retryCount = 0
Connected(st) == [st EXCEPT !.connectionStatus = "connected"]

\* downloadWorker after `await fetch`: res is ok with a body ("ok"), ok with
\* no body ("nobody"), not ok ("http"), or the fetch rejected ("error")
DownloadFetched(st, w, res) ==
    CASE res = "ok" -> [Connected(st) EXCEPT
                           !.workers = With(@, [w EXCEPT !.retryCount = 0, !.at = "read"])]
      [] res = "nobody" -> Enter(Connected(st), [w EXCEPT !.retryCount = 0])
      [] OTHER -> Caught(st, w)

\* mutant: a chunk counted from a stale copy of the counter (0 at start)
DownloadReadStale(st, w, len) ==
    IF len = -1 THEN Caught(st, w)
    ELSE IF len = 0 \/ st.aborted[w.signal] THEN Enter(st, w)
    ELSE LET s == [st EXCEPT !.bytesRef = len]
         IN IF LimitReached(s) THEN stopWithReason(s, TargetReached(s))
            ELSE [s EXCEPT !.workers = With(@, w)]

\* mutant: no limit check after a chunk is counted
DownloadReadUnchecked(st, w, len) ==
    IF len = -1 THEN Caught(st, w)
    ELSE IF len = 0 \/ st.aborted[w.signal] THEN Enter(st, w)
    ELSE [st EXCEPT !.bytesRef = @ + len, !.workers = With(@, w)]

\* downloadWorker after `await reader.read()`: a chunk of len bytes (len > 0),
\* the end of the stream (len = 0) or a rejected read (len = -1)
DownloadRead(st, w, len) ==
    IF len = -1 THEN Caught(st, w)
    ELSE IF len = 0 \/ st.aborted[w.signal] THEN Enter(st, w)
    ELSE LET s == [st EXCEPT !.bytesRef = @ + len]
         IN IF LimitReached(s) THEN stopWithReason(s, TargetReached(s))
            ELSE [s EXCEPT !.workers = With(@, w)]

\* uploadWorker after `await fetch`: res is ok ("ok"), not ok ("http"), or the
\* fetch rejected ("error")
UploadFetched(st, w, res) ==
    IF res = "ok"
    THEN Enter([Connected(st) EXCEPT !.bytesRef = @ + UploadChunkLength],
               [w EXCEPT !.retryCount = 0])
    ELSE Caught(st, w)

\* the state after the pending fetch or read of worker w fails now: the fetch
\* rejects with a network error, the read of the body rejects
FailureOf(w) ==
    LET st == [St EXCEPT !.workers = Without(@, w)]
    IN Settle(CASE w.kind = "download" /\ w.at = "fetch" -> DownloadFetched(st, w, "error")
                [] w.kind = "download" /\ w.at = "read" -> DownloadRead(st, w, -1)
                [] OTHER -> UploadFetched(st, w, "error"))

\* the state after the pending read of download worker w delivers len bytes now
ChunkOf(w, len) == Settle(DownloadRead([St EXCEPT !.workers = Without(@, w)], w, len))

\* the state after the pending fetch of worker w gets an ok response now
ResponseOf(w) ==
    LET st == [St EXCEPT !.workers = Without(@, w)]
    IN Settle(IF w.kind = "download" THEN DownloadFetched(st, w, "ok")
              ELSE UploadFetched(st, w, "ok"))

\* the state after the backoff timer of the sleeping worker w fires now
WakeOf(w) == Settle(Enter([St EXCEPT !.workers = Without(@, w)], w))

\* the state a callback leaves, after its microtask checkpoint
Commit(st) == Install(Settle(st))

----------------------------------------------------------------------------
(* Worker steps: one action per await of the worker functions *)

\* a fetch of a download worker settles (a network task)
DownloadFetchSettles ==
    /\ \E w \in WorkerSet : \E res \in {"ok", "nobody", "http", "error"} :
          /\ w.kind = "download" /\ w.at = "fetch"
          /\ res \in {"http", "error"} => w.retryCount < MaxRetryCount
          /\ Commit(DownloadFetched([St EXCEPT !.workers = Without(@, w)], w, res))
    /\ UNCHANGED <<speedSum, serverVars, mode, threads, stats, dataLimitMB, enableLimit, lastBytesRef,
                   startTimeRef, timer>>

\* a read of a download worker settles (a network task)
DownloadReadSettles ==
    /\ \E w \in WorkerSet : \E len \in ChunkLengths \cup {0, -1} :
          /\ w.kind = "download" /\ w.at = "read"
          /\ len > 0 => bytesRef <= MaxBytes
          /\ len = -1 => w.retryCount < MaxRetryCount
          /\ Commit(DownloadRead([St EXCEPT !.workers = Without(@, w)], w, len))
    /\ UNCHANGED <<speedSum, serverVars, mode, threads, stats, dataLimitMB, enableLimit, lastBytesRef,
                   startTimeRef, timer>>

\* the fetch of an upload worker settles (a network task)
UploadFetchSettles ==
    /\ \E w \in WorkerSet : \E res \in {"ok", "http", "error"} :
          /\ w.kind = "upload" /\ w.at = "fetch"
          /\ res = "ok" => bytesRef <= MaxBytes
          /\ res # "ok" => w.retryCount < MaxRetryCount
          /\ Commit(UploadFetched([St EXCEPT !.workers = Without(@, w)], w, res))
    /\ UNCHANGED <<speedSum, serverVars, mode, threads, stats, dataLimitMB, enableLimit, lastBytesRef,
                   startTimeRef, timer>>

\* the setTimeout of a backoff sleep of a worker of controller c fires (a timer
\* task) and the worker goes back to the head of its loop
TimerFires(c) ==
    /\ \E w \in WorkerSet :
          /\ w.at = "sleep" /\ w.signal = c
          /\ Commit(Enter([St EXCEPT !.workers = Without(@, w)], w))
    /\ UNCHANGED <<speedSum, serverVars, mode, threads, stats, dataLimitMB, enableLimit, lastBytesRef,
                   startTimeRef, timer>>

BackoffElapsed == \E c \in 1..Len(aborted) : TimerFires(c)

----------------------------------------------------------------------------
(* start, stop, the sampler effect *)

\* one call downloadWorker(signal) / uploadWorker(signal): an async function
\* runs up to its first await inside the call
Launch(st, kind) == Enter(st, NewWorker(kind, st.abortRef))

\* the for loop of start, from iteration i
RECURSIVE LaunchFrom(_, _)
LaunchFrom(i, st) ==
    IF i >= threads THEN st
    ELSE LET d == IF mode \in {"download", "both"} THEN Launch(st, "download") ELSE st
             u == IF mode \in {"upload", "both"} THEN Launch(d, "upload") ELSE d
         IN LaunchFrom(i + 1, u)

\* mutant: start() without `lastBytesRef.current = 0`
startKeepingLastBytes(now) ==
    /\ LET s0 == [St EXCEPT !.stoppedReason = NoReason, !.connectionStatus = "idle",
                            !.bytesRef = 0, !.activeRef = TRUE,
                            !.abortRef = Len(aborted) + 1,
                            !.aborted = Append(@, FALSE),
                            !.stopCalls = 0]
           s1 == LaunchFrom(0, s0)
       IN Commit([s1 EXCEPT !.active = TRUE])
    /\ startTimeRef' = now
    /\ timer' = TRUE
    /\ speedSum' = 0
    /\ UNCHANGED <<mode, threads, stats, dataLimitMB, enableLimit, lastBytesRef, serverVars>>

\* start(), with now the value of Date.now(); the effect on [active] runs
\* with the render that ends the event
start(now) ==
    /\ LET s0 == [St EXCEPT !.stoppedReason = NoReason, !.connectionStatus = "idle",
                            !.bytesRef = 0, !.activeRef = TRUE,
                            !.abortRef = Len(aborted) + 1,
                            !.aborted = Append(@, FALSE),
                            !.stopCalls = 0]
           s1 == LaunchFrom(0, s0)
       IN Commit([s1 EXCEPT !.active = TRUE])
    /\ startTimeRef' = now
    /\ lastBytesRef' = 0
    /\ timer' = TRUE
    /\ speedSum' = 0
    /\ UNCHANGED <<mode, threads, stats, dataLimitMB, enableLimit, serverVars>>

\* mutant: stop() flips active instead of clearing it
stopToggling ==
    /\ LET s1 == Abort([St EXCEPT !.activeRef = FALSE])
       IN Commit([s1 EXCEPT !.active = ~active, !.connectionStatus = "idle"])
    /\ timer' = ~active
    /\ UNCHANGED <<speedSum, serverVars, mode, threads, stats, dataLimitMB, enableLimit, lastBytesRef,
                   startTimeRef>>

\* mutant: stop() without setConnectionStatus("idle")
stopKeepingStatus ==
    /\ LET s1 == Abort([St EXCEPT !.activeRef = FALSE])
       IN Commit([s1 EXCEPT !.active = FALSE])
    /\ timer' = FALSE
    /\ UNCHANGED <<speedSum, serverVars, mode, threads, stats, dataLimitMB, enableLimit, lastBytesRef,
                   startTimeRef>>

\* mutant: stop() also resets the byte counter
stopResetting ==
    /\ LET s1 == Abort([St EXCEPT !.activeRef = FALSE, !.bytesRef = 0])
       IN Commit([s1 EXCEPT !.active = FALSE, !.connectionStatus = "idle"])
    /\ timer' = FALSE
    /\ UNCHANGED <<speedSum, serverVars, mode, threads, stats, dataLimitMB, enableLimit, lastBytesRef,
                   startTimeRef>>

\* mutant: stop() also clears the published statistics
stopClearingStats ==
    /\ LET s1 == Abort([St EXCEPT !.activeRef = FALSE])
       IN Commit([s1 EXCEPT !.active = FALSE, !.connectionStatus = "idle"])
    /\ timer' = FALSE
    /\ stats' = [speedBps |-> 0, totalBytes |-> 0, elapsed |-> 0]
    /\ UNCHANGED <<speedSum, serverVars, mode, threads, dataLimitMB, enableLimit, lastBytesRef,
                   startTimeRef>>

\* stop(); the cleanup of the effect on [active] runs with the render that
\* ends the event
stop ==
    /\ LET s1 == Abort([St EXCEPT !.activeRef = FALSE])
       IN Commit([s1 EXCEPT !.active = FALSE, !.connectionStatus = "idle"])
    /\ timer' = FALSE
    /\ UNCHANGED <<speedSum, serverVars, mode, threads, stats, dataLimitMB, enableLimit, lastBytesRef,
                   startTimeRef>>

\* mutant: the callback without `lastBytesRef.current = bytesRef.current`
SamplerTickKeepingCursor ==
    /\ timer
    /\ \E now \in startTimeRef..MaxNow :
          stats' = [speedBps |-> bytesRef - lastBytesRef, totalBytes |-> bytesRef,
                    elapsed |-> now - startTimeRef]
    /\ speedSum' = speedSum + (bytesRef - lastBytesRef)
    /\ UNCHANGED <<serverVars, active, mode, threads, stoppedReason, connectionStatus, dataLimitMB,
                   enableLimit, bytesRef, lastBytesRef, startTimeRef, activeRef, abortRef,
                   limitRef, aborted, workers, timer, stopCalls>>

\* the callback of setInterval(..., 1000), with now the value of Date.now()
SamplerTick ==
    /\ timer
    /\ \E now \in startTimeRef..MaxNow :
          stats' = [speedBps |-> bytesRef - lastBytesRef, totalBytes |-> bytesRef,
                    elapsed |-> now - startTimeRef]
    /\ lastBytesRef' = bytesRef
    /\ speedSum' = speedSum + (bytesRef - lastBytesRef)
    /\ UNCHANGED <<serverVars, active, mode, threads, stoppedReason, connectionStatus, dataLimitMB,
                   enableLimit, bytesRef, startTimeRef, activeRef, abortRef, limitRef,
                   aborted, workers, timer, stopCalls>>

\* the effect on [active] after a render that no event handler caused (setActive
\* called by a worker): cleanup clears the interval, the body sets one if active
SamplerEffect ==
    /\ timer # active
    /\ timer' = active
    /\ UNCHANGED <<speedSum, serverVars, active, mode, threads, stats, stoppedReason, connectionStatus,
                   dataLimitMB, enableLimit, bytesRef, lastBytesRef, startTimeRef,
                   activeRef, abortRef, limitRef, aborted, workers, stopCalls>>

\* mutant: setMode turns the running workers to the new direction
setModeRedirecting(m) ==
    /\ mode' = m
    /\ workers' = IF m = "both" THEN workers
                  ELSE BagOfAll(LAMBDA w : [w EXCEPT !.kind = m], workers)
    /\ UNCHANGED <<speedSum, serverVars, active, threads, stats, stoppedReason, connectionStatus, dataLimitMB,
                   enableLimit, bytesRef, lastBytesRef, startTimeRef, activeRef, abortRef,
                   limitRef, aborted, timer, stopCalls>>

\* the setters of the configuration; the effect on [enableLimit, dataLimitMB]
\* copies them to limitRef
setMode(m) ==
    /\ mode' = m
    /\ UNCHANGED <<speedSum, serverVars, active, threads, stats, stoppedReason, connectionStatus, dataLimitMB,
                   enableLimit, bytesRef, lastBytesRef, startTimeRef, activeRef, abortRef,
                   limitRef, aborted, workers, timer, stopCalls>>

setThreads(n) ==
    /\ threads' = n
    /\ UNCHANGED <<speedSum, serverVars, active, mode, stats, stoppedReason, connectionStatus, dataLimitMB,
                   enableLimit, bytesRef, lastBytesRef, startTimeRef, activeRef, abortRef,
                   limitRef, aborted, workers, timer, stopCalls>>

setLimit(enabled, limitMB) ==
    /\ enableLimit' = enabled
    /\ dataLimitMB' = limitMB
    /\ limitRef' = LimitOf(enabled, limitMB)
    /\ UNCHANGED <<speedSum, serverVars, active, mode, threads, stats, stoppedReason, connectionStatus,
                   bytesRef, lastBytesRef, startTimeRef, activeRef, abortRef,
                   aborted, workers, timer, stopCalls>>

\* start is followed while the bounds hold the controllers and the workers
Launches == threads * (IF mode = "both" THEN 2 ELSE 1)
WithinBounds ==
    /\ Len(aborted) < MaxRuns
    /\ BagCardinality(workers) + Max(Launches, 0) <= MaxWorkers

----------------------------------------------------------------------------
(* The API endpoints: src/api/upload.ts, src/api/download.ts,              *)
(* src/api/proxy.ts.  A handler is an async function of one request; the   *)
(* handlers share no state, so one request at a time is followed.          *)

\* the methods of the requests explored
Methods == {"OPTIONS", "POST", "GET", "PUT"}
\* lengths of the chunks request.body delivers (chosen by the client)
BodyChunkLengths == {0, 1, 2}

\* const TEST_URLS of download.ts
TEST_URLS == <<"https://speed.cloudflare.com/__down?bytes=10000000",
               "https://proof.ovh.net/files/10Mb.dat">>

\* response.ok
Ok(status) == status \in 200..299

\* the statuses a Response cannot carry together with a body
NullBodyStatus == {101, 103, 204, 205, 304}

\* the statuses an upstream server answers with
UpstreamStatuses == {200, 204, 304, 404, 503, 999}

\* what `await fetch(url)` gives: it throws, or a response with a status and
\* a body or none
Threw == [threw |-> TRUE, status |-> 0, hasBody |-> FALSE]
UpstreamResults ==
    {Threw} \cup
    {r \in [threw : {FALSE}, status : UpstreamStatuses, hasBody : BOOLEAN] :
        r.hasBody => r.status \notin NullBodyStatus}

\* the values of searchParams.get("url"): null, or a text (its characters)
NoTarget == [present |-> FALSE, text |-> << >>]
Text(chars) == [present |-> TRUE, text |-> chars]
Targets ==
    {NoTarget,
     Text(<< >>),
     Text(<<"a">>),
     Text(<<"/", "a">>),
     Text(<<"h", "t", "t", "p", ":", "/", "/", "a">>),
     Text(<<"h", "t", "t", "p", "s", ":", "/", "/", "a">>),
     Text(<<"H", "T", "T", "P", ":", "/", "/", "a">>),
     Text(<<"h", "t", "t", "p", ":", "/", "/">>),
     Text(<<"f", "t", "p", ":", "/", "/", "a">>),
     Text(<<"d", "a", "t", "a", ":", "a">>)}

Letters == {"a", "d", "f", "h", "p", "s", "t", "H", "P", "T"}
ToLower(c) == CASE c = "H" -> "h" [] c = "P" -> "p" [] c = "T" -> "t" [] OTHER -> c

\* the index of the first ":" of a text, 0 if it has none
Colon(text) ==
    IF \E i \in 1..Len(text) : text[i] = ":"
    THEN CHOOSE i \in 1..Len(text) : text[i] = ":" /\ \A j \in 1..(i - 1) : text[j] # ":"
    ELSE 0

\* what follows the slashes after the scheme
RECURSIVE AfterSlashes(_)
AfterSlashes(text) ==
    IF text # << >> /\ Head(text) = "/" THEN AfterSlashes(Tail(text)) ELSE text

\* new URL(text) without a base: it throws unless the text starts with a
\* scheme (letters up to a ":"), and for the schemes that take a host
\* (http, https, ftp) unless a host follows; protocol is the scheme in lower
\* case with its ":"
ParseURL(text) ==
    LET c == Colon(text)
        scheme == [i \in 1..(c - 1) |-> ToLower(text[i])]
        rest == SubSeq(text, c + 1, Len(text))
        special == scheme \in {<<"h", "t", "t", "p">>, <<"h", "t", "t", "p", "s">>,
                               <<"f", "t", "p">>}
    IN IF c <= 1 \/ \E i \in 1..(c - 1) : text[i] \notin Letters
       THEN [threw |-> TRUE, protocol |-> << >>]
       ELSE IF special /\ AfterSlashes(rest) = << >>
       THEN [threw |-> TRUE, protocol |-> << >>]
       ELSE [threw |-> FALSE, protocol |-> Append(scheme, ":")]

NoRequest == [endpoint |-> "none", method |-> "none", hasBody |-> FALSE, target |-> NoTarget]
NoResponse == [status |-> 0, cors |-> FALSE, body |-> "none", bytesReceived |-> -1,
               source |-> "none", error |-> "none"]
NoNetwork == [reads |-> 0, chunks |-> << >>, ended |-> FALSE, fetched |-> << >>]
Idle == [at |-> "idle", bytesReceived |-> 0, source |-> 0]

\* a Response with the CORS headers
Answer(status, body) == [NoResponse EXCEPT !.status = status, !.cors = TRUE, !.body = body]

\* new Response(null, { headers: CORS_HEADERS })
Preflight == Answer(200, "null")

\* Response.json(data, { status, headers }): the constructor throws for a
\* status outside 200..599 and for a body with a null body status
ResponseJson(status, error) ==
    [threw |-> status \notin 200..599 \/ status \in NullBodyStatus,
     response |-> [Answer(status, "json") EXCEPT !.error = error]]

\* a state of the server, and the state a handler leaves
Sv == [handler |-> handler, response |-> response, network |-> network]
Returned(sv, res) == [sv EXCEPT !.handler.at = "returned", !.response = res]

InstallServer(sv) ==
    /\ handler' = sv.handler
    /\ response' = sv.response
    /\ network' = sv.network

\* the handlers before a request, and a request that arrives
ServerInit ==
    /\ request = NoRequest
    /\ handler = Idle
    /\ response = NoResponse
    /\ network = NoNetwork

Fresh == [handler |-> Idle, response |-> NoResponse, network |-> NoNetwork]

EngineVars == <<active, mode, threads, stats, stoppedReason, connectionStatus,
                dataLimitMB, enableLimit, bytesRef, lastBytesRef, startTimeRef,
                activeRef, abortRef, limitRef, aborted, workers, timer, stopCalls,
                speedSum>>

(* upload.ts *)

\* the answer of upload.ts to a POST
UploadAnswer(bytesReceived) == [Answer(200, "json") EXCEPT !.bytesReceived = bytesReceived]

\* `await reader.read()` is called
ReadCalled(sv) == [sv EXCEPT !.handler.at = "read", !.network.reads = @ + 1]

\* handler of upload.ts up to its first await
UploadHandler(sv, req) ==
    IF req.method = "OPTIONS" THEN Returned(sv, Preflight)
    ELSE IF req.method # "POST" THEN Returned(sv, Answer(405, "text"))
    ELSE IF req.hasBody THEN ReadCalled(sv)
    ELSE Returned(sv, UploadAnswer(sv.handler.bytesReceived))

\* mutant: the lengths of the chunks are not added, the chunks are counted
UploadReadCountingChunks(sv, done, len) ==
    IF done THEN Returned(sv, UploadAnswer(sv.handler.bytesReceived))
    ELSE ReadCalled([sv EXCEPT !.handler.bytesReceived = @ + 1])

\* handler of upload.ts after `await reader.read()`: the end of the body
\* (done) or a chunk of len bytes
UploadRead(sv, done, len) ==
    IF done THEN Returned(sv, UploadAnswer(sv.handler.bytesReceived))
    ELSE ReadCalled([sv EXCEPT !.handler.bytesReceived = @ + len])

\* a request arrives at /api/upload
UploadRequest ==
    /\ handler.at \in {"idle", "returned", "threw"}
    /\ \E m \in Methods : \E b \in {c \in BOOLEAN : c => m # "GET"} :
          /\ request' = [NoRequest EXCEPT !.endpoint = "upload", !.method = m, !.hasBody = b]
          /\ InstallServer(UploadHandler(Fresh, request'))
    /\ UNCHANGED EngineVars

\* a read of the request body settles: a chunk, the end, or an error (the
\* client went away) that the handler does not catch
UploadReadSettles ==
    /\ request.endpoint = "upload" /\ handler.at = "read"
    /\ \/ \E len \in BodyChunkLengths :
             /\ Len(network.chunks) < MaxChunks
             /\ InstallServer(UploadRead([Sv EXCEPT !.network.chunks = Append(@, len)],
                                         FALSE, len))
       \/ InstallServer(UploadRead([Sv EXCEPT !.network.ended = TRUE], TRUE, 0))
       \/ InstallServer([Sv EXCEPT !.handler.at = "threw"])
    /\ UNCHANGED <<request, EngineVars>>

(* download.ts *)

\* fetch(url) is called for the source at index i
FetchCalled(sv, i) == [sv EXCEPT !.handler.at = "fetch", !.handler.source = i]

\* handler of download.ts up to its first await
DownloadHandler(sv, req) ==
    IF req.method = "OPTIONS" THEN Returned(sv, Preflight)
    ELSE FetchCalled(sv, 1)

\* mutant: a source that throws ends the loop (break for continue)
DownloadTriedBreaking(sv, res) ==
    IF ~res.threw /\ Ok(res.status) /\ res.hasBody
    THEN Returned(sv, [Answer(200, "stream") EXCEPT !.source = TEST_URLS[sv.handler.source]])
    ELSE IF ~res.threw /\ sv.handler.source < Len(TEST_URLS)
    THEN FetchCalled(sv, sv.handler.source + 1)
    ELSE Returned(sv, [Answer(503, "json") EXCEPT !.error = "All CDN sources unavailable"])

\* handler of download.ts after `await fetch(url)` of the source it is at
DownloadTried(sv, res) ==
    IF ~res.threw /\ Ok(res.status) /\ res.hasBody
    THEN Returned(sv, [Answer(200, "stream") EXCEPT !.source = TEST_URLS[sv.handler.source]])
    ELSE IF sv.handler.source < Len(TEST_URLS)
    THEN FetchCalled(sv, sv.handler.source + 1)
    ELSE Returned(sv, [Answer(503, "json") EXCEPT !.error = "All CDN sources unavailable"])

\* a request arrives at /api/download
DownloadRequest ==
    /\ handler.at \in {"idle", "returned", "threw"}
    /\ \E m \in Methods :
          /\ request' = [NoRequest EXCEPT !.endpoint = "download", !.method = m]
          /\ InstallServer(DownloadHandler(Fresh, request'))
    /\ UNCHANGED EngineVars

\* the fetch of a CDN source settles
DownloadSourceSettles ==
    /\ request.endpoint = "download" /\ handler.at = "fetch"
    /\ \E res \in UpstreamResults :
          InstallServer(DownloadTried(
              [Sv EXCEPT !.network.fetched =
                             Append(@, [url |-> TEST_URLS[handler.source], result |-> res])],
              res))
    /\ UNCHANGED <<request, EngineVars>>

(* proxy.ts *)

\* the catch block of proxy.ts
ProxyCaught(sv) == Returned(sv, ResponseJson(500, "Proxy error").response)

\* handler of proxy.ts up to its first await
ProxyHandler(sv, req) ==
    IF req.method = "OPTIONS" THEN Returned(sv, Preflight)
    ELSE IF ~req.target.present \/ req.target.text = << >>
    THEN Returned(sv, ResponseJson(400, "Missing 'url' parameter").response)
    ELSE LET parsed == ParseURL(req.target.text)
         IN IF parsed.threw THEN ProxyCaught(sv)
            ELSE IF parsed.protocol \notin {<<"h", "t", "t", "p", ":">>,
                                           <<"h", "t", "t", "p", "s", ":">>}
            THEN Returned(sv, ResponseJson(400, "Only HTTP/HTTPS URLs allowed").response)
            ELSE FetchCalled(sv, 0)

\* handler of proxy.ts after `await fetch(targetUrl)`
ProxyFetched(sv, res) ==
    IF res.threw THEN ProxyCaught(sv)
    ELSE IF ~Ok(res.status)
    THEN LET r == ResponseJson(res.status, "External server returned")
         IN IF r.threw THEN ProxyCaught(sv) ELSE Returned(sv, r.response)
    ELSE Returned(sv, Answer(200, IF res.hasBody THEN "stream" ELSE "null"))

\* a request arrives at /api/proxy
ProxyRequest ==
    /\ handler.at \in {"idle", "returned", "threw"}
    /\ \E m \in Methods : \E t \in Targets :
          /\ request' = [NoRequest EXCEPT !.endpoint = "proxy", !.method = m, !.target = t]
          /\ InstallServer(ProxyHandler(Fresh, request'))
    /\ UNCHANGED EngineVars

\* the upstream fetch of the proxy settles
ProxyUpstreamSettles ==
    /\ request.endpoint = "proxy" /\ handler.at = "fetch"
    /\ \E res \in UpstreamResults :
          InstallServer(ProxyFetched(
              [Sv EXCEPT !.network.fetched =
                             Append(@, [url |-> request.target.text, result |-> res])],
              res))
    /\ UNCHANGED <<request, EngineVars>>

\* the three endpoints
NextServer ==
    \/ UploadRequest
    \/ UploadReadSettles
    \/ DownloadRequest
    \/ DownloadSourceSettles
    \/ ProxyRequest
    \/ ProxyUpstreamSettles

----------------------------------------------------------------------------
(* The application: the controls of App, disabled while active *)

\* onClick={() => (active ? stop() : start())}
ClickMain ==
    IF active THEN stop
    ELSE WithinBounds /\ \E now \in startTimeRef..MaxNow : start(now)

\* a preset button: setEnableLimit(true); setDataLimitMB(preset.value)
ClickPreset ==
    /\ ~active
    /\ \E v \in 1..MaxLimitMB : setLimit(TRUE, v)

\* the Unlimited Mode switch: setEnableLimit(!checked)
ClickUnlimited ==
    /\ ~active
    /\ setLimit(~enableLimit, dataLimitMB)

\* a Transfer Mode button
ClickMode ==
    /\ ~active
    /\ \E m \in Modes : setMode(m)

\* the Connections slider, min 1
SlideThreads ==
    /\ ~active
    /\ \E n \in 1..MaxThreads : setThreads(n)

\* useState(4), useState(100): the defaults, within the bounds
Init ==
    /\ active = FALSE
    /\ mode = "download"
    /\ threads = Min(4, MaxThreads)
    /\ stats = [speedBps |-> 0, totalBytes |-> 0, elapsed |-> 0]
    /\ stoppedReason = NoReason
    /\ connectionStatus = "idle"
    /\ dataLimitMB = Min(100, MaxLimitMB)
    /\ enableLimit = TRUE
    /\ bytesRef = 0
    /\ lastBytesRef = 0
    /\ startTimeRef = 0
    /\ activeRef = FALSE
    /\ abortRef = 0
    /\ limitRef = LimitOf(TRUE, Min(100, MaxLimitMB))
    /\ aborted = << >>
    /\ workers = EmptyBag
    /\ timer = FALSE
    /\ stopCalls = 0
    /\ speedSum = 0
    /\ ServerInit

WorkerStep ==
    \/ DownloadFetchSettles
    \/ DownloadReadSettles
    \/ UploadFetchSettles
    \/ BackoffElapsed

\* the controls of App
Control ==
    \/ ClickMain
    \/ ClickPreset
    \/ ClickUnlimited
    \/ ClickMode
    \/ SlideThreads

\* the sampler: its interval and the effect that sets and clears it
Sampler ==
    \/ SamplerTick
    \/ SamplerEffect

\* the application
Next ==
    \/ Control
    \/ WorkerStep
    \/ Sampler

Spec == Init /\ [][Next]_vars

\* the engine under the application: the sampler only reads bytesRef and is
\* the only reader of what it writes (stats, lastBytesRef), so a property of
\* the other variables holds of Spec iff it holds without the sampler's ticks
NextEngine ==
    \/ Control
    \/ WorkerStep
    \/ SamplerEffect

SpecEngine == Init /\ [][NextEngine]_vars

\* the engine with timers that fire: a setTimeout that was set fires
TimersFire == \A c \in 1..MaxRuns : WF_vars(TimerFires(c))

SpecTimers == SpecEngine /\ TimersFire

\* a worker step in which a download gets its response (the worker goes on to
\* read the body)
DownloadOpened ==
    /\ DownloadFetchSettles
    /\ \E w \in BagToSet(workers') :
          w.at = "read" /\ CopiesIn(w, workers') > CopiesIn(w, workers)

\* a worker step in which a chunk is counted
ChunkCounted == WorkerStep /\ bytesRef' > bytesRef

\* the engine with timers that fire and transfers that keep delivering:
\* fetches of downloads that get a response again and again, chunks that
\* arrive again and again
Delivering == TimersFire /\ SF_vars(DownloadOpened) /\ SF_vars(ChunkCounted)

SpecDelivering == SpecEngine /\ Delivering

----------------------------------------------------------------------------
(* The hook alone: its functions called in any order with any argument *)

CallStart == WithinBounds /\ \E now \in startTimeRef..MaxNow : start(now)

CallStop == stop

CallSetMode == \E m \in Modes : setMode(m)

CallSetThreads == \E n \in 0..MaxThreads : setThreads(n)

CallSetDataLimitMB == \E v \in 0..MaxLimitMB : setLimit(enableLimit, v)

CallSetEnableLimit == \E b \in BOOLEAN : setLimit(b, dataLimitMB)

\* the functions the hook returns
Call ==
    \/ CallStart
    \/ CallStop
    \/ CallSetMode
    \/ CallSetThreads
    \/ CallSetDataLimitMB
    \/ CallSetEnableLimit

NextApi ==
    \/ Call
    \/ WorkerStep
    \/ SamplerEffect

SpecApi == Init /\ [][NextApi]_vars

\* the application, and stop() called at any time besides
NextStop ==
    \/ NextEngine
    \/ CallStop

SpecStop == Init /\ [][NextStop]_vars

\* the API endpoints alone
SpecServer == Init /\ [][NextServer]_vars

----------------------------------------------------------------------------
(* Properties *)

\* the workers of the controller c, by kind
Count(ws, kind, c) ==
    BagCardinality(BagOfAll(LAMBDA w : w.kind,
        [w \in {x \in BagToSet(ws) : x.kind = kind /\ x.signal = c} |-> CopiesIn(w, ws)]))

TokenSet == abortRef # 0 /\ aborted[abortRef]

\* the bytes one step of a worker may add
ChunkSizes == ChunkLengths \cup {UploadChunkLength}
MaxChunk == CHOOSE c \in ChunkSizes : \A d \in ChunkSizes : d <= c

\* C1: start() called while a run is active changes nothing: totalBytes,
\* lastSampledBytes, startedAt, the current token and the live workers stay
\* (stated for a run that has workers and whose token is not set)
C1_StartWhileRunningRejected ==
    [][(active /\ ~TokenSet /\ threads >= 1 /\ CallStart) =>
          UNCHANGED <<bytesRef, lastBytesRef, startTimeRef, abortRef, aborted, workers>>]_vars

\* C2: whenever the budget is enabled and totalBytes >= budget, the current
\* cancellation token is set
C2_BudgetObservedCancels ==
    (limitRef.enabled /\ bytesRef >= limitRef.limitBytes) => TokenSet

C2_Witness ==
    /\ limitRef.enabled /\ bytesRef >= limitRef.limitBytes
    /\ stopCalls = 1 /\ TokenSet

\* C3: a step that adds bytes while the budget is enabled leaves totalBytes
\* below budget + one chunk
C3_OvershootBelowOneChunk ==
    [][(limitRef.enabled /\ bytesRef' > bytesRef) =>
          bytesRef' < limitRef.limitBytes + MaxChunk]_vars

C3_Witness ==
    /\ limitRef.enabled /\ bytesRef > limitRef.limitBytes
    /\ stopCalls = 1

\* C4: once the budget is enabled and totalBytes >= budget, no step adds
\* bytes (totalBytes changes again only by the reset of the next start)
C4_NoBytesAfterBudget ==
    [][(limitRef.enabled /\ bytesRef >= limitRef.limitBytes) =>
          bytesRef' <= bytesRef]_vars

C4_Witness ==
    /\ limitRef.enabled /\ bytesRef >= limitRef.limitBytes
    /\ TokenSet /\ ~active
    /\ \E w \in WorkerSet : w.signal = abortRef /\ w.kind = "upload"

\* C5: in one run stopWithReason is called at most once, and the stop reason
\* is set by exactly that call
C5_SingleTrigger ==
    /\ stopCalls <= 1
    /\ stoppedReason # NoReason <=> stopCalls = 1

C5_Witness ==
    /\ stopCalls = 1
    /\ \E w \in WorkerSet : w.at = "sleep" /\ w.signal = abortRef

\* the state stop() leaves
Stopped ==
    /\ ~active /\ ~activeRef /\ ~timer
    /\ connectionStatus = "idle"
    /\ abortRef # 0 => aborted[abortRef]

\* C6: stop() called in the state a stop() left, or before any start, changes
\* nothing
C6_StopIdempotent == [][(Stopped /\ CallStop) => UNCHANGED vars]_vars

C6_Witness == Stopped /\ abortRef # 0 /\ bytesRef > 0

\* C7: after stop() the token is set, active is false and connectionStatus
\* is idle
C7_StopPost ==
    [][CallStop => (~active' /\ ~activeRef' /\ connectionStatus' = "idle"
                    /\ (abortRef' # 0 => aborted'[abortRef']))]_vars

C7_Witness ==
    /\ Stopped /\ abortRef # 0
    /\ \E w \in WorkerSet : w.at = "sleep" /\ w.retryCount >= maxRetries

\* the workers the claim expects of start
ExpectedUpload == CASE mode = "download" -> 0
                    [] mode = "upload" -> threads
                    [] OTHER -> threads \div 2
ExpectedDownload == CASE mode = "download" -> threads
                      [] mode = "upload" -> 0
                      [] OTHER -> threads - (threads \div 2)

\* C8: start launches workerCount workers, split for mode both into
\* floor(workerCount/2) upload and the rest download workers
C8_StartLaunchesWorkerCount ==
    [][CallStart =>
          /\ Count(workers', "upload", abortRef') = ExpectedUpload
          /\ Count(workers', "download", abortRef') = ExpectedDownload]_vars

\* C9: start() with threads <= 0 is a no-op
C9_StartWithoutWorkersNoOp ==
    [][(threads <= 0 /\ CallStart) =>
          UNCHANGED <<active, activeRef, timer, workers, bytesRef, lastBytesRef,
                      stoppedReason, connectionStatus>>]_vars

\* C10: a step that changes totalBytes adds the length of one chunk, or it is
\* start() and sets it to 0
C10_BytesMonotone ==
    [][bytesRef' # bytesRef =>
          \/ bytesRef' - bytesRef \in ChunkSizes
          \/ CallStart /\ bytesRef' = 0]_vars

C10_Witness == active /\ ~aborted[abortRef] /\ bytesRef > MaxChunk

\* C11: the speed a tick publishes is the total it publishes minus the total
\* of the previous tick of the run (lastBytesRef: set by every tick to the
\* total it publishes, set to 0 by start, written by nothing else), and it
\* is never negative
C11_SpeedIsDifference ==
    [][/\ SamplerTick =>
            /\ stats'.totalBytes = bytesRef
            /\ stats'.speedBps = stats'.totalBytes - lastBytesRef
            /\ stats'.speedBps >= 0
            /\ lastBytesRef' = stats'.totalBytes
       /\ CallStart => lastBytesRef' = 0
       /\ lastBytesRef' # lastBytesRef => (SamplerTick \/ CallStart)]_vars

\* a tick of the second run has published a positive speed
C11_Witness ==
    /\ abortRef = 2 /\ lastBytesRef > 0
    /\ stats.totalBytes = lastBytesRef /\ stats.speedBps > 0

\* C12: the sampler publishes a snapshot only while the run is active: no
\* tick after the run has stopped, by stop() or by the budget
C12_NoSnapshotAfterStop == [][SamplerTick => active]_vars

\* the delays the claim lists for 1, 2, 3 consecutive failures; 2000 from there on
BackoffSequence == <<500, 1000, 2000>>

C14_NoSleeperAfterCancel ==
    \A w \in WorkerSet : aborted[w.signal] => w.at # "sleep"

\* the workers of controller c have all returned
Exited(c) == \A w \in WorkerSet : w.signal # c

\* C15: once the signal of a run is aborted, every worker of the run
\* eventually returns, provided the timers fire
C15_WorkersExit ==
    \A c \in 1..MaxRuns : (Len(aborted) >= c /\ aborted[c]) ~> Exited(c)

\* a worker of a stopped run still sleeps while the next run is active
C15_Witness ==
    /\ active /\ ~TokenSet
    /\ \E w \in WorkerSet : w.at = "sleep" /\ w.signal # abortRef /\ aborted[w.signal]

\* the workers that failed in this step: they start a backoff sleep, with
\* their failure counter already incremented
Failed ==
    {w \in BagToSet(workers') : w.at = "sleep" /\ CopiesIn(w, workers') > CopiesIn(w, workers)}

\* C16: connectionStatus becomes "error" only in a step where a worker fails
\* with its counter at 3 or more, every such failure leaves it "error", and
\* a failure with the counter below 3 does not touch it
C16_ErrorAtThreeFailures ==
    [][/\ (connectionStatus' = "error" /\ connectionStatus # "error") =>
            \E w \in Failed : w.retryCount >= 3
       /\ \A w \in Failed :
            /\ w.retryCount >= 3 => connectionStatus' = "error"
            /\ w.retryCount < 3 => connectionStatus' = connectionStatus]_vars

\* a fourth failure in a row has kept the status at "error"
C16_Witness ==
    /\ connectionStatus = "error" /\ active
    /\ \E w \in WorkerSet : w.at = "sleep" /\ w.retryCount = 4

\* C17: a failure, whatever the number of failures before it, ends nothing:
\* the worker stays (asleep, its counter one higher), the token, the stop
\* reason and the running flags stay as they are; and the sleeping worker of
\* a run that is not cancelled goes on to its next attempt
C17_FailuresNotFatal ==
    \A w \in WorkerSet :
        /\ (w.at \in {"fetch", "read"} /\ ~aborted[w.signal]) =>
              LET s == FailureOf(w)
              IN /\ s.workers = With(Without(workers, w),
                                      [w EXCEPT !.retryCount = @ + 1, !.at = "sleep",
                                                !.delay = BackoffDelay(w.retryCount + 1)])
                 /\ s.aborted = aborted /\ s.abortRef = abortRef
                 /\ s.stoppedReason = stoppedReason
                 /\ s.active = active /\ s.activeRef = activeRef
        /\ (w.at = "sleep" /\ ~aborted[w.signal]) =>
              WakeOf(w).workers = With(Without(workers, w), [w EXCEPT !.at = "fetch", !.delay = 0])

\* a worker is at a new attempt after four failures in a row
C17_Witness ==
    /\ active /\ ~TokenSet /\ stoppedReason = NoReason
    /\ \E w \in WorkerSet : w.at = "fetch" /\ w.retryCount = 4 /\ w.signal = abortRef

\* C18: an abort is no failure: no worker whose signal is aborted counts a
\* failure, and connectionStatus does not become "error" once the current
\* token is set
C18_AbortIsNoFailure ==
    [][/\ \A w \in Failed : ~aborted'[w.signal]
       /\ (connectionStatus' = "error" /\ connectionStatus # "error") => ~TokenSet']_vars

\* stop() has aborted the transfers in flight of a run that had counted
\* bytes: the workers are gone, none of them asleep, and the status is idle
C18_Witness ==
    /\ TokenSet /\ stopCalls = 0 /\ bytesRef > 0
    /\ workers = EmptyBag
    /\ connectionStatus = "idle"

\* C19: a run with the budget enabled whose transfers keep delivering chunks
\* ends: active becomes false with the token set and, unless stop() ended it
\* (no call of stopWithReason), with the bytes at or over the limit and the
\* stop reason naming the limit
C19_BudgetEndsRun ==
    (active /\ limitRef.enabled /\ ~TokenSet) ~>
        /\ ~active /\ TokenSet
        /\ stopCalls = 0 \/
             /\ bytesRef >= limitRef.limitBytes
             /\ stoppedReason = formatBytes(limitRef.limitBytes)

\* the budget has ended a run that overshot it: the reason is the limit, not
\* the total
C19_Witness ==
    /\ ~active /\ TokenSet /\ stopCalls = 1
    /\ bytesRef > limitRef.limitBytes
    /\ stoppedReason = formatBytes(limitRef.limitBytes)
    /\ stoppedReason # formatBytes(bytesRef)

\* C20: connectionStatus goes from "error" to "connected" only in a step
\* that counts a chunk
C20_ConnectedAtChunk ==
    [][(connectionStatus = "error" /\ connectionStatus' = "connected") =>
          bytesRef' > bytesRef]_vars

\* C21: a worker calls stopWithReason only in a step that leaves the budget
\* enabled and reached, and the step that counts the bytes reaching an
\* enabled budget calls it; with the budget disabled no step sets the stop
\* reason or cancels the run, and a run ends only by stop()
C21_BudgetMonitor ==
    [][/\ stopCalls' > stopCalls =>
            (limitRef.enabled /\ bytesRef' >= limitRef.limitBytes)
       /\ (limitRef.enabled /\ bytesRef' > bytesRef /\ bytesRef' >= limitRef.limitBytes) =>
            stopCalls' = stopCalls + 1
       /\ ~limitRef.enabled =>
            /\ stopCalls' > stopCalls => CallStart
            /\ stoppedReason' \in {stoppedReason, NoReason}
            /\ (active /\ ~active') => CallStop
            /\ (~TokenSet /\ TokenSet') => CallStop]_vars

\* a run with the budget disabled goes on past the configured limit
C21_Witness ==
    /\ ~limitRef.enabled /\ active /\ ~TokenSet
    /\ bytesRef > limitRef.limitBytes
    /\ stoppedReason = NoReason

\* C22: a stop by the budget leaves what stop() leaves: active and activeRef
\* false, the token set, connectionStatus idle
C22_BudgetStopLikeStop ==
    [][stopCalls' > stopCalls =>
          /\ ~active' /\ ~activeRef'
          /\ TokenSet'
          /\ connectionStatus' = "idle"]_vars

\* C23: start() leaves totalBytes and lastSampledBytes 0, the stop reason
\* unset, connectionStatus idle, a new token that is not cancelled, and the
\* run active
C23_StartResets ==
    [][CallStart =>
          /\ bytesRef' = 0 /\ lastBytesRef' = 0
          /\ stoppedReason' = NoReason
          /\ connectionStatus' = "idle"
          /\ abortRef' = Len(aborted) + 1 /\ ~aborted'[abortRef']
          /\ active' /\ activeRef']_vars

\* the workers that got their response in this step and go on to read the body
Opened ==
    {w \in BagToSet(workers') : w.at = "read" /\ CopiesIn(w, workers') > CopiesIn(w, workers)}

\* C24: the failure counter is reset only when a transfer completes: a
\* response that opens leaves the counter of its worker as it was, so that
\* attempts failing in the body count up to 3
C24_ResetAtCompletion ==
    [][\A w \in Opened :
          \E v \in WorkerSet :
              /\ v.at = "fetch" /\ v.kind = w.kind /\ v.signal = w.signal
              /\ v.retryCount = w.retryCount]_vars

\* C25: no attempt is open (a fetch called and not settled) in a state where
\* the signal of its worker is aborted or the budget is enabled and reached:
\* every attempt is opened in the step that made both checks, whether it is
\* the first, follows a transfer or follows a backoff sleep
C25_CheckedBeforeAttempt ==
    \A w \in WorkerSet :
        w.at = "fetch" =>
            /\ ~aborted[w.signal]
            /\ ~(limitRef.enabled /\ bytesRef >= limitRef.limitBytes)

\* an attempt opened after a backoff sleep, with bytes counted and the budget
\* not reached
C25_Witness ==
    /\ limitRef.enabled /\ 0 < bytesRef /\ bytesRef < limitRef.limitBytes
    /\ \E w \in WorkerSet : w.at = "fetch" /\ w.retryCount >= 1 /\ ~aborted[w.signal]

\* C26: whatever the other workers have counted in between, a chunk that
\* arrives adds its length to the counter as it is now, once: a chunk read
\* by a download worker, the chunk of an upload that is answered ok; a
\* response that only opens a download, the end of a body and a failed fetch
\* or read add nothing
C26_ChunkCountedOnce ==
    \A w \in WorkerSet :
        /\ (w.kind = "download" /\ w.at = "read") =>
              /\ \A len \in ChunkLengths : ChunkOf(w, len).bytesRef = bytesRef + len
              /\ ChunkOf(w, 0).bytesRef = bytesRef
        /\ (w.kind = "download" /\ w.at = "fetch") => ResponseOf(w).bytesRef = bytesRef
        /\ (w.kind = "upload" /\ w.at = "fetch") =>
              ResponseOf(w).bytesRef = bytesRef + UploadChunkLength
        /\ w.at \in {"fetch", "read"} => FailureOf(w).bytesRef = bytesRef

\* an upload worker of the run has counted its chunk and a download worker
\* of the same run reads a body: its chunk will arrive on a counter another
\* worker has written
C26_Witness ==
    /\ bytesRef = UploadChunkLength
    /\ \E u, d \in WorkerSet :
          /\ u.kind = "upload" /\ d.kind = "download" /\ d.at = "read"
          /\ u.signal = abortRef /\ d.signal = abortRef /\ ~aborted[abortRef]

\* C27: the budget the workers of a run check (limitRef, read at every
\* check) is the one of its start: it does not change while the run is
\* active and has workers
C27_BudgetFixedAtStart ==
    [][(active /\ ~TokenSet /\ workers # EmptyBag) => limitRef' = limitRef]_vars

\* C28: the workers of a controller and their kinds are those its start
\* launched: no step adds a download or an upload worker to a controller
\* that exists, and a step that changes mode or threads leaves the workers
\* as they are
C28_WorkersFixedAtStart ==
    [][/\ \A c \in 1..Len(aborted) : \A kind \in {"download", "upload"} :
            Count(workers', kind, c) <= Count(workers, kind, c)
       /\ (mode' # mode \/ threads' # threads) => workers' = workers]_vars

\* mode and threads were changed during a run: its download workers go on
\* while mode is upload and threads is not their number
C28_Witness ==
    /\ active /\ ~TokenSet /\ mode = "upload"
    /\ Count(workers, "download", abortRef) > 0
    /\ Count(workers, "upload", abortRef) = 0
    /\ threads # Count(workers, "download", abortRef)

\* C29: in every state between the callbacks (start has returned), a run
\* whose token is set is not reported active
C29_CancelledNotRunning == TokenSet => ~active

\* C30: from stop() to the next start (activeRef is false) no step takes
\* connectionStatus away from idle
C30_IdleAfterStop ==
    [][(~activeRef /\ connectionStatus = "idle") => connectionStatus' = "idle"]_vars

\* stop() has ended a run that had counted bytes, and a worker of that run
\* is still there, in its backoff sleep
C30_Witness ==
    /\ ~activeRef /\ TokenSet /\ connectionStatus = "idle"
    /\ bytesRef > 0
    /\ \E w \in WorkerSet : w.signal = abortRef /\ w.at = "sleep"

C32_LeftoverWorkersInert ==
    \A w \in WorkerSet :
        w.signal # abortRef =>
            /\ w.at = "sleep" /\ aborted[w.signal]
            /\ WakeOf(w) = [St EXCEPT !.workers = Without(@, w)]

\* the new run has counted bytes and is connected while a worker of the
\* stopped run still sleeps
C32_Witness ==
    /\ active /\ ~TokenSet /\ bytesRef > 0 /\ connectionStatus = "connected"
    /\ bytesRef < limitRef.limitBytes
    /\ \E w \in WorkerSet : w.signal # abortRef /\ w.at = "sleep"

\* C33: lastSampledBytes never exceeds totalBytes; a tick leaves it equal to
\* the totalBytes of the snapshot it publishes; and the speeds published
\* since the start of the run sum to lastSampledBytes, hence after a tick to
\* the totalBytes of the latest snapshot
C33_SpeedsSumToTotal ==
    /\ [](lastBytesRef <= bytesRef)
    /\ [](speedSum = lastBytesRef)
    /\ [][SamplerTick =>
            /\ lastBytesRef' = stats'.totalBytes
            /\ speedSum' = stats'.totalBytes]_vars

\* two ticks of a run have published positive speeds
C33_Witness ==
    /\ active /\ stats.speedBps > 0 /\ speedSum > stats.speedBps
    /\ stats.totalBytes = speedSum

\* C34: the snapshot the hook returns never reports more bytes than the
\* current run has counted, also between start() and the first tick of the
\* new run
C34_SnapshotWithinRun == stats.totalBytes <= bytesRef

\* C35: stop() leaves totalBytes, lastSampledBytes, startedAt, the last
\* published snapshot and the stop reason as they are
C35_StopFrame ==
    [][CallStop =>
          UNCHANGED <<bytesRef, lastBytesRef, startTimeRef, stats, stoppedReason>>]_vars

\* stop() has ended a run that had published a snapshot and counted bytes
\* since
C35_Witness ==
    /\ Stopped /\ stopCalls = 0 /\ abortRef # 0
    /\ stats.totalBytes > 0 /\ lastBytesRef = stats.totalBytes
    /\ bytesRef > lastBytesRef

RECURSIVE SumSeq(_)
SumSeq(q) == IF q = << >> THEN 0 ELSE Head(q) + SumSeq(Tail(q))

\* C36: /api/upload answers a POST only once the body has been read to its
\* end, with 200 and bytesReceived the sum of the lengths of the chunks read;
\* it answers OPTIONS with the CORS headers alone and any other method with
\* 405, in both cases without a read of the body
C36_UploadContract ==
    request.endpoint = "upload" =>
        /\ request.method = "POST" =>
              /\ response # NoResponse =>
                    /\ request.hasBody => network.ended
                    /\ response.status = 200 /\ response.cors
                    /\ response.bytesReceived = SumSeq(network.chunks)
              /\ network.ended => response # NoResponse
        /\ request.method = "OPTIONS" =>
              /\ response = Preflight
              /\ network.reads = 0
        /\ request.method \notin {"POST", "OPTIONS"} =>
              /\ response.status = 405 /\ response.cors
              /\ network.reads = 0

\* a POST whose body came in chunks of different lengths, one of them empty,
\* has been answered
C36_Witness ==
    /\ request.endpoint = "upload" /\ request.method = "POST"
    /\ network.ended /\ Len(network.chunks) = 3
    /\ \E i, j \in 1..3 : network.chunks[i] = 0 /\ network.chunks[j] = 2
    /\ response.bytesReceived = 4

\* a source that answered with a success status and a body
Succeeded(r) == ~r.threw /\ r.status \in 200..299 /\ r.hasBody

Missing(t) == ~t.present \/ t.text = << >>
\* the url parameter parses as an http: or https: URL
HttpTarget(t) ==
    /\ ~Missing(t) /\ ~ParseURL(t.text).threw
    /\ ParseURL(t.text).protocol \in {<<"h", "t", "t", "p", ":">>,
                                      <<"h", "t", "t", "p", "s", ":">>}

\* C38: /api/proxy (any method but OPTIONS) fetches upstream only for a url
\* parameter that parses as an http: or https: URL; a missing parameter or
\* another scheme is answered 400 and a parameter that does not parse 500,
\* both without a fetch; a fetch that throws is answered 500, and an
\* upstream status that is no success is the status of the answer
C38_ProxyContract ==
    (request.endpoint = "proxy" /\ request.method # "OPTIONS") =>
        LET t == request.target
            f == network.fetched
        IN /\ (handler.at = "fetch" \/ f # << >>) => HttpTarget(t)
           /\ (Missing(t) \/ (~ParseURL(t.text).threw /\ ~HttpTarget(t))) =>
                 response.status = 400 /\ f = << >>
           /\ (~Missing(t) /\ ParseURL(t.text).threw) =>
                 response.status = 500 /\ f = << >>
           /\ (f # << >> /\ f[1].result.threw) => response.status = 500
           /\ (f # << >> /\ ~f[1].result.threw /\ f[1].result.status \notin 200..299) =>
                 response.status = f[1].result.status

====
